---- MODULE Spec2Model ----
(***************************************************************************)
(* Model of graphene/types/mutation.py: the construction hook              *)
(* Mutation.__init_subclass_with_meta__, the field factory Mutation.Field  *)
(* and the generated validating resolver (run_validators + mutate).        *)
(***************************************************************************)
EXTENDS Integers, Sequences, FiniteSets, TLC

\* ------------------------------------------------------------------ bounds
MaxInterfaces == 2      \* longest `interfaces` tuple that is enumerated
MaxBases == 1           \* user-written ancestors between the class and Mutation
MaxArgs == 2            \* most arguments declared by an Arguments/Input class
MaxValue == 2           \* sub-values of an input object are drawn from 1..MaxValue

\* ------------------------------------------------------- python values
None == [kind |-> "None"]

EmptyDict == [n \in {} |-> None]

\* Python truthiness of the values that reach an `if not x` / `x or y`.
Truthy(v) ==
    CASE v.kind = "None" -> FALSE
      [] v.kind = "dict" -> DOMAIN v.items # {}
      [] v.kind = "odict" -> Len(v.items) > 0
      [] OTHER -> TRUE

\* dict.update: the entries of b replace or extend those of a.
update(a, b) ==
    [n \in (DOMAIN a) \cup (DOMAIN b) |-> IF n \in DOMAIN b THEN b[n] ELSE a[n]]

NoError == [type |-> "None", a |-> "", b |-> ""]

AssertionError(a, b) == [type |-> "AssertionError", a |-> a, b |-> b]

\* ------------------------------------------------------------ schema types
MkField(type, owner) == [kind |-> "Field", type |-> type, of |-> owner]

Unmounted(type, owner) == [kind |-> "Unmounted", type |-> type, of |-> owner]

\* Two interface types and one class that is not an interface.
Node ==
    [kind |-> "class", name |-> "Node", bases |-> {"Interface"},
     fields |-> [n \in {"id"} |-> MkField("ID", "Node")]]

Named ==
    [kind |-> "class", name |-> "Named", bases |-> {"Interface"},
     fields |-> [n \in {"ok", "label"} |-> MkField("String", "Named")]]

Plain ==
    [kind |-> "class", name |-> "Plain", bases |-> {"ObjectType"},
     fields |-> [n \in {"secret"} |-> MkField("String", "Plain")]]

InterfaceValues == {Node, Named, Plain}

issubclass(c, base) == base \in c.bases

\* An explicit output type.
PersonPayload == [kind |-> "class", name |-> "PersonPayload", bases |-> {"ObjectType"}]

OtherPayload == [kind |-> "class", name |-> "OtherPayload", bases |-> {"ObjectType"}]

\* ------------------------------------------------------------- attributes
ClassNames == <<"CreatePerson", "Base1", "Base2", "Base3", "Base4">>

\* getattr(cls, name, None): the first class of the MRO whose __dict__ has it.
RECURSIVE getattr_from(_, _, _)
getattr_from(mro, name, i) ==
    IF i > Len(mro) THEN None
    ELSE IF name \in DOMAIN mro[i].dict THEN mro[i].dict[name]
    ELSE getattr_from(mro, name, i + 1)

getattr(cls, name) == getattr_from(cls.mro, name, 1)

\* yank_fields_from_attrs(attrs, _as=Field): keeps the attributes that are
\* fields or unmounted types and mounts the latter as fields.
yank_fields_from_attrs(attrs) ==
    LET keep == {n \in DOMAIN attrs : attrs[n].kind \in {"Field", "Unmounted"}}
    IN [n \in keep |-> MkField(attrs[n].type, attrs[n].of)]

\* names every class has (dir of an empty class); props() leaves them out
all_vars == {"__module__", "__doc__", "__dict__"}

RECURSIVE props_from(_, _)
props_from(attrs, i) ==
    IF i > Len(attrs) THEN <<>>
    ELSE IF attrs[i][1] \in all_vars THEN props_from(attrs, i + 1)
    ELSE <<attrs[i]>> \o props_from(attrs, i + 1)

\* props(input_class): the class's own attributes as an ordered dict.
props(input_class) == [kind |-> "odict", items |-> props_from(input_class.attrs, 1)]

\* get_unbound_function(func): the function behind a bound method.
get_unbound_function(func) ==
    IF func.kind = "method" THEN func.func ELSE func

\* ------------------------------------------------------- run_validators
ValidatorName(arg_input_name) == "validate_" \o arg_input_name

hasattr(argument, name) == name \in DOMAIN argument.attrs

ValidateCall(argument_name, fn, value) ==
    [op |-> "validate", arg |-> argument_name, fn |-> fn, value |-> value]

\* The inner loop (lines 20-24) over the items of one argument's value,
\* from position j on: the validator calls made, and the error that ended it.
RECURSIVE validate_inputs(_, _, _, _)
validate_inputs(argument_name, argument, items, j) ==
    IF j > Len(items) THEN [calls |-> <<>>, error |-> NoError]
    ELSE
      LET arg_input_name == items[j][1]
          value == items[j][2]
          validator_function_name == ValidatorName(arg_input_name)
      IN IF hasattr(argument, validator_function_name)
         THEN LET validator_function == argument.attrs[validator_function_name]
                  call == ValidateCall(argument_name, validator_function_name, value)
              IN IF value \in validator_function.rejects
                 THEN [calls |-> <<call>>,
                       error |-> [type |-> "ValidationError",
                                  a |-> argument_name, b |-> validator_function_name]]
                 ELSE LET rest == validate_inputs(argument_name, argument, items, j + 1)
                      IN [calls |-> <<call>> \o rest.calls, error |-> rest.error]
         ELSE validate_inputs(argument_name, argument, items, j + 1)

\* The outer loop (lines 17-19) over the declared arguments, from position i on.
RECURSIVE run_validators_from(_, _, _)
run_validators_from(arguments, kwargs, i) ==
    IF i > Len(arguments.items) THEN [calls |-> <<>>, error |-> NoError]
    ELSE
      LET argument_name == arguments.items[i][1]
          argument == arguments.items[i][2]
      IN IF argument_name \notin DOMAIN kwargs
         THEN [calls |-> <<>>,
               error |-> [type |-> "KeyError", a |-> argument_name, b |-> ""]]
         ELSE LET arg_value == kwargs[argument_name]
              IN IF arg_value.kind # "dict"
                 THEN [calls |-> <<>>,
                       error |-> [type |-> "AttributeError", a |-> arg_value.kind, b |-> "keys"]]
                 ELSE LET here == validate_inputs(argument_name, argument, arg_value.items, 1)
                      IN IF here.error # NoError THEN here
                         ELSE LET rest == run_validators_from(arguments, kwargs, i + 1)
                              IN [calls |-> here.calls \o rest.calls, error |-> rest.error]

run_validators(arguments, args, kwargs) == run_validators_from(arguments, kwargs, 1)

\* ---------------------------------------------------------- the resolver
\* What a user function returns: a value that records who produced it from what.
Return(f, args, kwargs) ==
    [kind |-> "result", by |-> f.name, args |-> args, kwargs |-> kwargs]

MutateCall(f, args, kwargs) ==
    [op |-> "mutate", fn |-> f.name, args |-> args, kwargs |-> kwargs,
     ret |-> Return(f, args, kwargs)]

\* The closure of lines 130-132 over `arguments` and `mutate`.
resolver_closure(arguments, mutate) ==
    [kind |-> "closure", name |-> "resolver", arguments |-> arguments, mutate |-> mutate]

\* Calling a resolver: the generated closure runs the validators and then
\* mutate; an explicit resolver is the user's own function.
CallResolver(resolver, args, kwargs) ==
    IF resolver.kind = "closure"
    THEN LET v == run_validators(resolver.arguments, args, kwargs)
             f == get_unbound_function(resolver.mutate)
         IN IF v.error # NoError
            THEN [calls |-> v.calls, result |-> None, error |-> v.error]
            ELSE [calls |-> v.calls \o <<MutateCall(f, args, kwargs)>>,
                  result |-> Return(f, args, kwargs), error |-> NoError]
    ELSE [calls |-> <<>>, result |-> Return(resolver, args, kwargs), error |-> NoError]

\* ------------------------------------------- __init_subclass_with_meta__
\* MutationOptions(cls): the class attributes of lines 27-31 (fields comes
\* from the base options and starts as None).
MutationOptions ==
    [kind |-> "options", fields |-> None, interfaces |-> <<>>,
     output |-> None, resolver |-> None, arguments |-> None]

Dict(items) == [kind |-> "dict", items |-> items]

\* Variant: the interfaces are merged without the assertion of lines 95-97.
RECURSIVE interface_fields_unchecked(_, _, _, _)
interface_fields_unchecked(cls, interfaces, i, fields) ==
    IF i > Len(interfaces) THEN [error |-> NoError, fields |-> fields]
    ELSE interface_fields_unchecked(cls, interfaces, i + 1,
                                    update(fields, interfaces[i].fields))

\* Lines 94-98: every interface is asserted and its fields merged, in order.
RECURSIVE interface_fields(_, _, _, _)
interface_fields(cls, interfaces, i, fields) ==
    IF i > Len(interfaces) THEN [error |-> NoError, fields |-> fields]
    ELSE LET interface == interfaces[i]
         IN IF ~issubclass(interface, "Interface")
            THEN [error |-> AssertionError(cls.name, interface.name), fields |-> fields]
            ELSE interface_fields(cls, interfaces, i + 1, update(fields, interface.fields))

\* Variant: `for base in cls.__mro__`, most-derived class first.
RECURSIVE mro_fields_forward(_, _, _)
mro_fields_forward(mro, i, fields) ==
    IF i < 1 THEN fields
    ELSE mro_fields_forward(mro, i - 1,
           update(fields, yank_fields_from_attrs(mro[Len(mro) - i + 1].dict)))

\* Lines 103-104: `for base in reversed(cls.__mro__)`, position i down to 1.
RECURSIVE mro_fields(_, _, _)
mro_fields(mro, i, fields) ==
    IF i < 1 THEN fields
    ELSE mro_fields(mro, i - 1, update(fields, yank_fields_from_attrs(mro[i].dict)))

\* Variant: the class attributes are scraped whether or not output is set.
output_and_fields_always_scrape(cls, output, fields) ==
    LET out == IF Truthy(output) THEN output ELSE getattr(cls, "Output")
        scraped == update(fields, mro_fields(cls.mro, Len(cls.mro), EmptyDict))
    IN IF ~Truthy(out)
       THEN [output |-> [kind |-> "class", name |-> cls.name, bases |-> {"Mutation"}],
             fields |-> mro_fields(cls.mro, Len(cls.mro), EmptyDict)]
       ELSE [output |-> out, fields |-> scraped]

\* Lines 91 and 100-105: the output type and the fields that go with it.
output_and_fields(cls, output, fields) ==
    LET out == IF Truthy(output) THEN output ELSE getattr(cls, "Output")
    IN IF ~Truthy(out)
       THEN [output |-> [kind |-> "class", name |-> cls.name, bases |-> {"Mutation"}],
             fields |-> mro_fields(cls.mro, Len(cls.mro), EmptyDict)]
       ELSE [output |-> out, fields |-> fields]

\* Variant: the warning is emitted whenever an Input class exists.
resolve_arguments_warn_on_input(cls, arguments) ==
    IF Truthy(arguments) THEN [arguments |-> arguments, warnings |-> 0]
    ELSE
      LET declared == getattr(cls, "Arguments")
          legacy == getattr(cls, "Input")
          input_class == IF Truthy(declared) THEN declared ELSE legacy
      IN [arguments |-> IF Truthy(input_class) THEN props(input_class)
                        ELSE [kind |-> "odict", items |-> <<>>],
          warnings |-> IF Truthy(legacy) THEN 1 ELSE 0]

\* Lines 107-124: the argument set, and the deprecation warnings emitted.
resolve_arguments(cls, arguments) ==
    IF Truthy(arguments) THEN [arguments |-> arguments, warnings |-> 0]
    ELSE
      LET declared == getattr(cls, "Arguments")
          legacy == getattr(cls, "Input")
          input_class == IF Truthy(declared) THEN declared ELSE legacy
          warned == IF ~Truthy(declared) /\ Truthy(legacy) THEN 1 ELSE 0
      IN [arguments |-> IF Truthy(input_class) THEN props(input_class)
                        ELSE [kind |-> "odict", items |-> <<>>],
          warnings |-> warned]

\* Variant: mutate is wrapped without the assertion of line 128.
resolve_resolver_unasserted(cls, resolver, arguments) ==
    IF Truthy(resolver) THEN [error |-> NoError, resolver |-> resolver]
    ELSE [error |-> NoError,
          resolver |-> resolver_closure(arguments, getattr(cls, "mutate"))]

\* Variant: mutate is wrapped even when an explicit resolver is given.
resolve_resolver_always_wrap(cls, resolver, arguments) ==
    LET mutate == getattr(cls, "mutate")
    IN IF Truthy(mutate)
       THEN [error |-> NoError, resolver |-> resolver_closure(arguments, mutate)]
       ELSE IF Truthy(resolver) THEN [error |-> NoError, resolver |-> resolver]
       ELSE [error |-> AssertionError("mutate", ""), resolver |-> None]

\* Lines 126-132: an explicit resolver is kept; otherwise mutate is required
\* and wrapped.
resolve_resolver(cls, resolver, arguments) ==
    IF Truthy(resolver) THEN [error |-> NoError, resolver |-> resolver]
    ELSE LET mutate == getattr(cls, "mutate")
         IN IF ~Truthy(mutate)
            THEN [error |-> AssertionError("mutate", ""), resolver |-> None]
            ELSE [error |-> NoError, resolver |-> resolver_closure(arguments, mutate)]

\* Lines 134-142: what is recorded on the options object.
record_meta(meta, fields, interfaces, output, resolver, arguments) ==
    [kind |-> "options",
     fields |-> IF Truthy(meta.fields) THEN Dict(update(meta.fields.items, fields))
                ELSE Dict(fields),
     interfaces |-> interfaces, output |-> output,
     resolver |-> resolver, arguments |-> arguments]

\* The whole hook, lines 79-142.  `recorded` is the options object after
\* the call: the one passed in, untouched, when an assertion fails.
init_subclass_with_meta(cls, interfaces, resolver, output, arguments, meta) ==
    LET m == IF Truthy(meta) THEN meta ELSE MutationOptions
        ifc == interface_fields(cls, interfaces, 1, EmptyDict)
        of == output_and_fields(cls, output, ifc.fields)
        ar == resolve_arguments(cls, arguments)
        rr == resolve_resolver(cls, resolver, ar.arguments)
    IN IF ifc.error # NoError
       THEN [error |-> ifc.error, warnings |-> 0, fields |-> ifc.fields, recorded |-> meta]
       ELSE IF rr.error # NoError
       THEN [error |-> rr.error, warnings |-> ar.warnings, fields |-> of.fields,
             recorded |-> meta]
       ELSE [error |-> NoError, warnings |-> ar.warnings, fields |-> of.fields,
             recorded |-> record_meta(m, of.fields, interfaces, of.output,
                                      rr.resolver, ar.arguments)]

\* Lines 146-159: Field() mounts the recorded output, arguments and resolver.
MountedField(meta) ==
    [kind |-> "Field", type |-> meta.output, args |-> meta.arguments,
     resolver |-> meta.resolver]

\* ------------------------------------------------------ the definitions
FieldNames == {"ok", "person"}

\* `ok = Boolean()` and `person = Field(Person)` as declared by class `owner`.
FieldAttrs(owner, names) ==
    [n \in names |-> IF n = "ok" THEN Unmounted("Boolean", owner)
                     ELSE MkField("Person", owner)]

Str(s) == [kind |-> "str", s |-> s]

\* What every class body has besides its declarations.
BodyAttrs(owner) == [n \in {"__module__"} |-> Str(owner)]

\* The tail of every MRO: Mutation itself, whose __dict__ holds no field.
MutationClass ==
    [name |-> "Mutation",
     dict |-> [n \in {"Field"} |->
                 [kind |-> "method", func |-> [kind |-> "function", name |-> "Field"]]]]

Validator(rejects) == [kind |-> "validator", rejects |-> rejects]

\* String(): a scalar argument, no validate_* attribute.
StringArg == [kind |-> "Argument", type |-> "String", attrs |-> EmptyDict]

\* An input object whose definition has validate_email.
PersonInput ==
    [kind |-> "Argument", type |-> "PersonInput",
     attrs |-> [n \in {"validate_email"} |-> Validator({})]]

\* An input object with validate_email (refuses the value 1) and validate_age.
StrictInput ==
    [kind |-> "Argument", type |-> "StrictInput",
     attrs |-> [n \in {"validate_email", "validate_age"} |->
                 Validator(IF n = "validate_email" THEN {1} ELSE {})]]

ArgDefs == {StringArg, PersonInput, StrictInput}

ArgNameSeq == <<"name", "input", "extra", "more">>

ArgNames == {ArgNameSeq[i] : i \in 1..MaxArgs}

Distinct(seq) == \A i, j \in 1..Len(seq) : i # j => seq[i][1] # seq[j][1]

\* Ordered declarations of at most MaxArgs arguments with distinct names.
ArgItems(defs) ==
    UNION {{q \in [1..n -> ArgNames \X defs] : Distinct(q)} : n \in 0..MaxArgs}

\* An inner class (Arguments or Input) declaring the given items.
InnerClass(name, items) ==
    [kind |-> "class", name |-> name, bases |-> {"object"},
     attrs |-> <<<<"__module__", Str(name)>>>> \o items]

mutate_function == [kind |-> "function", name |-> "mutate"]

mutate_method == [kind |-> "method", func |-> mutate_function]

custom_resolver == [kind |-> "function", name |-> "custom_resolver"]

\* A function from the names in `names` that have a value in `vals`
\* (a record of name |-> value or None) to their values.
Attrs(names, vals) ==
    [n \in {m \in names : vals[m] # None} |-> vals[n]]

Specials == {"Output", "Arguments", "Input", "mutate"}

\* One class of the MRO.
Class(i, fieldnames, specials) ==
    [name |-> ClassNames[i],
     dict |-> update(update(BodyAttrs(ClassNames[i]), FieldAttrs(ClassNames[i], fieldnames)),
                     Attrs(Specials, specials))]

NoSpecials == [n \in Specials |-> None]

Definition(classes) == [name |-> ClassNames[1], mro |-> classes \o <<MutationClass>>]

InterfaceTuples ==
    UNION {[1..n -> InterfaceValues] : n \in 0..MaxInterfaces}

\* An options object handed in by a subclass hook, with a field already set.
PresetOptions ==
    [MutationOptions EXCEPT
       !.fields = Dict([n \in {"legacy"} |-> MkField("String", "preset")])]

Options(interfaces, resolver, output, arguments, meta) ==
    [interfaces |-> interfaces, resolver |-> resolver, output |-> output,
     arguments |-> arguments, meta |-> meta]

\* --------------------------------------------------------------- payloads
SubKeys == {"email", "age"}

\* The items of a dict-shaped argument value: distinct sub-keys, in any order.
DictItems ==
    UNION {{q \in [1..n -> SubKeys \X (1..MaxValue)] : Distinct(q)}
           : n \in 0..Cardinality(SubKeys)}

PayloadValues == {Str("A")} \cup {[kind |-> "dict", items |-> q] : q \in DictItems}

DeclaredNames(arguments) == {arguments.items[i][1] : i \in 1..Len(arguments.items)}

\* The engine passes a keyword for each declared argument the query supplies.
Payloads(arguments) ==
    UNION {[S -> PayloadValues] : S \in SUBSET DeclaredNames(arguments)}

Positional == <<"root", "info">>

\* ------------------------------------------------------------------ state
VARIABLES
    cls,        \* the class body: name and MRO with each class's __dict__
    opts,       \* the Meta options handed to the hook
    pc,         \* "declared", "built", "failed", "mounted", "resolved"
    meta,       \* the options object recorded for the class
    fields,     \* the hook's local `fields` when it ended
    error,      \* the exception that ended the hook, or NoError
    warnings,   \* number of warn_deprecation calls
    field,      \* what Field() returned
    kwargs,     \* the keyword payload of the resolver invocation
    calls,      \* validator and mutate calls made by the invocation, in order
    result,     \* what the invocation returned
    rerror      \* the exception the invocation raised, or NoError

vars == <<cls, opts, pc, meta, fields, error, warnings, field, kwargs, calls, result, rerror>>

\* Definitions that vary the declared fields, the interfaces and the output.
FieldScenario ==
    \E nb \in 0..MaxBases :
    \E fs \in [1..(nb + 1) -> SUBSET FieldNames] :
    \E out \in {None, PersonPayload} :
    \E interfaces \in InterfaceTuples :
    \E output \in {None, OtherPayload} :
    \E m \in {None, PresetOptions} :
      /\ cls = Definition(
                 [i \in 1..(nb + 1) |->
                    Class(i, fs[i],
                          [n \in Specials |->
                             CASE n = "Output" /\ i = 1 -> out
                               [] n = "Arguments" /\ i = 1 ->
                                    InnerClass("Arguments", <<<<"name", PersonInput>>>>)
                               [] n = "mutate" /\ i = nb + 1 -> mutate_function
                               [] OTHER -> None])])
      /\ opts = Options(interfaces, None, output, None, m)

DeclaredClasses(name) ==
    {None} \cup {InnerClass(name, q) : q \in ArgItems({StringArg})}

\* Definitions that vary Arguments, Input, the resolver and mutate.
ArgumentScenario ==
    \E ad \in DeclaredClasses("Arguments") :
    \E inp \in DeclaredClasses("Input") :
    \E arguments \in {None, [kind |-> "odict", items |-> <<>>],
                      [kind |-> "odict", items |-> <<<<"name", PersonInput>>>>]} :
    \E resolver \in {None, custom_resolver} :
    \E mut \in {None, mutate_function, mutate_method} :
    \E interfaces \in {<<>>, <<Plain>>} :
      /\ cls = Definition(
                 <<Class(1, FieldNames,
                         [n \in Specials |->
                            CASE n = "Arguments" -> ad
                              [] n = "Input" -> inp
                              [] n = "mutate" -> mut
                              [] OTHER -> None])>>)
      /\ opts = Options(interfaces, resolver, None, arguments, None)

\* Definitions that vary the argument definitions and their validators.
ValidatorScenario ==
    \E q \in ArgItems(ArgDefs) :
      /\ cls = Definition(
                 <<Class(1, FieldNames,
                         [n \in Specials |->
                            CASE n = "Arguments" -> InnerClass("Arguments", q)
                              [] n = "mutate" -> mutate_function
                              [] OTHER -> None])>>)
      /\ opts = Options(<<>>, None, None, None, None)

Init ==
    /\ FieldScenario \/ ArgumentScenario \/ ValidatorScenario
    /\ pc = "declared"
    /\ meta = opts.meta
    /\ fields = EmptyDict
    /\ error = NoError
    /\ warnings = 0
    /\ field = None
    /\ kwargs = EmptyDict
    /\ calls = <<>>
    /\ result = None
    /\ rerror = NoError

\* The class statement ends and the hook runs (lines 79-142).
InitSubclassWithMeta ==
    /\ pc = "declared"
    /\ LET r == init_subclass_with_meta(cls, opts.interfaces, opts.resolver,
                                        opts.output, opts.arguments, opts.meta)
       IN /\ meta' = r.recorded
          /\ fields' = r.fields
          /\ error' = r.error
          /\ warnings' = r.warnings
          /\ pc' = IF r.error = NoError THEN "built" ELSE "failed"
    /\ UNCHANGED <<cls, opts, field, kwargs, calls, result, rerror>>

\* Schema code calls cls.Field() (lines 146-159).
MountField ==
    /\ pc = "built"
    /\ field' = MountedField(meta)
    /\ pc' = "mounted"
    /\ UNCHANGED <<cls, opts, meta, fields, error, warnings, kwargs, calls, result, rerror>>

\* The engine invokes the mounted field's resolver with a payload.
Resolve ==
    /\ pc = "mounted"
    /\ \E kw \in Payloads(field.args) :
         LET r == CallResolver(field.resolver, Positional, kw)
         IN /\ kwargs' = kw
            /\ calls' = r.calls
            /\ result' = r.result
            /\ rerror' = r.error
    /\ pc' = "resolved"
    /\ UNCHANGED <<cls, opts, meta, fields, error, warnings, field>>

Next == InitSubclassWithMeta \/ MountField \/ Resolve

Spec == Init /\ [][Next]_vars

TypeOK == pc \in {"declared", "built", "failed", "mounted", "resolved"}

\* ================================================================ claims
Constructed == pc \in {"built", "mounted", "resolved"}

Mounted == pc \in {"mounted", "resolved"}

Wrapped == Mounted /\ field.resolver.kind = "closure"

MutateCalls == {c \in 1..Len(calls) : calls[c].op = "mutate"}

\* the validator calls made for sub-key k of argument `name`
ValidatorCalls(name, k) ==
    {c \in 1..Len(calls) :
       /\ calls[c].op = "validate"
       /\ calls[c].arg = name
       /\ calls[c].fn = ValidatorName(k)}

\* the declared arguments the payload carries as a dict
DictArgs ==
    {i \in 1..Len(field.args.items) :
       /\ field.args.items[i][1] \in DOMAIN kwargs
       /\ kwargs[field.args.items[i][1]].kind = "dict"}

\* Every sub-key of every dict-shaped declared argument was dispatched:
\* one call with the sub-value, ahead of mutate, when validate_<k> exists;
\* no call otherwise.
Dispatched ==
    \A i \in DictArgs :
      LET name == field.args.items[i][1]
          argument == field.args.items[i][2]
          items == kwargs[name].items
      IN \A j \in 1..Len(items) :
           LET k == items[j][1]
               v == items[j][2]
           IN IF ValidatorName(k) \in DOMAIN argument.attrs
              THEN /\ Cardinality(ValidatorCalls(name, k)) = 1
                   /\ \A c \in ValidatorCalls(name, k) :
                        /\ calls[c].value = v
                        /\ \A m \in MutateCalls : c < m
              ELSE ValidatorCalls(name, k) = {}

MutateRan ==
    /\ rerror = NoError
    /\ Cardinality(MutateCalls) = 1
    /\ \A m \in MutateCalls :
         /\ calls[m].args = Positional
         /\ calls[m].kwargs = kwargs
         /\ result = calls[m].ret

\* C1: with the single scalar argument `name`, no explicit output and no
\* explicit resolver, the resolver invoked with name="A" calls mutate exactly
\* once with the same arguments and returns its result, raising nothing.
C1_ScalarPayloadReachesMutate ==
    ( /\ pc = "resolved"
      /\ opts.resolver = None
      /\ opts.output = None
      /\ getattr(cls, "Output") = None
      /\ getattr(cls, "Arguments") # None
      /\ field.args.items = <<<<"name", StringArg>>>>
      /\ kwargs = [n \in {"name"} |-> Str("A")] )
    => MutateRan

\* C2: in the validating resolver, unless a validator itself refuses a value,
\* every sub-key of every declared argument's payload value is dispatched
\* (validate_<k> called once with the sub-value before mutate when it exists,
\* not called when it does not) and mutate runs without error.
C2_EverySubKeyDispatched ==
    ( /\ pc = "resolved"
      /\ Wrapped
      /\ rerror.type # "ValidationError" )
    => (Dispatched /\ MutateRan)

\* C3: a payload that omits a declared argument has it skipped without
\* error: the validators of the arguments that are present run and mutate
\* is invoked.
C3_OmittedArgumentSkipped ==
    ( /\ pc = "resolved"
      /\ Wrapped
      /\ DeclaredNames(field.args) \ (DOMAIN kwargs) # {}
      /\ \A n \in DOMAIN kwargs : kwargs[n].kind = "dict"
      /\ rerror.type # "ValidationError" )
    => (rerror = NoError /\ MutateCalls # {} /\ Dispatched)

\* C4: after construction the recorded field set of a definition that
\* declares interfaces contains every field of every interface, with or
\* without an explicit output type.
C4_InterfaceFieldsRecorded ==
    (Constructed /\ Len(opts.interfaces) > 0)
    => \A i \in 1..Len(opts.interfaces) :
         DOMAIN opts.interfaces[i].fields \subseteq DOMAIN meta.fields.items

\* the explicit output type of the definition, or None
ExplicitOutput ==
    IF opts.output # None THEN opts.output ELSE getattr(cls, "Output")

UserClasses == 1..(Len(cls.mro) - 1)

\* the classes of the MRO whose body declares a field called n
Declaring(n) ==
    {i \in UserClasses :
       /\ n \in DOMAIN cls.mro[i].dict
       /\ cls.mro[i].dict[n].kind \in {"Field", "Unmounted"}}

DeclaredFieldNames == {n \in FieldNames : Declaring(n) # {}}

Min(S) == CHOOSE x \in S : \A y \in S : x <= y

\* C5: with an explicit output type (option or Output member) the produced
\* field's output type is that type, and the builder's field set holds
\* interface fields only, none scraped from the class or its ancestors.
C5_ExplicitOutputNoScrape ==
    (Constructed /\ ExplicitOutput # None)
    => /\ meta.output = ExplicitOutput
       /\ Mounted => field.type = ExplicitOutput
       /\ \A n \in DOMAIN fields :
            \E i \in 1..Len(opts.interfaces) :
              /\ n \in DOMAIN opts.interfaces[i].fields
              /\ fields[n] = opts.interfaces[i].fields[n]

C5_Witness ==
    /\ Mounted
    /\ opts.output # None
    /\ DeclaredFieldNames = FieldNames
    /\ Len(opts.interfaces) > 0
    /\ DOMAIN fields = {"id"}

\* C6: without an output type the produced field's output type is the
\* definition itself and its field set has, for every field name declared
\* along the ancestor chain, the declaration of the most-derived class.
C6_DerivedDeclarationWins ==
    (Constructed /\ ExplicitOutput = None)
    => /\ meta.output.name = cls.name
       /\ Mounted => field.type.name = cls.name
       /\ DOMAIN fields = DeclaredFieldNames
       /\ \A n \in DOMAIN fields :
            /\ fields[n].kind = "Field"
            /\ fields[n].of = cls.mro[Min(Declaring(n))].name

C6_Witness ==
    /\ Mounted
    /\ ExplicitOutput = None
    /\ Cardinality(Declaring("ok")) > 1
    /\ fields["ok"].of = cls.name

\* the arguments an inner class declares, in order
DeclaredItems(c) == SubSeq(c.attrs, 2, Len(c.attrs))

\* C7: without an explicit `arguments` option, Arguments gives exactly its
\* declared arguments and no warning; Input alone gives the same arguments
\* and exactly one deprecation warning; neither gives no argument and no
\* warning.
C7_ArgumentsOrDeprecatedInput ==
    (Constructed /\ opts.arguments = None)
    => LET a == getattr(cls, "Arguments")
           i == getattr(cls, "Input")
       IN /\ a # None
               => meta.arguments.items = DeclaredItems(a) /\ warnings = 0
          /\ (a = None /\ i # None)
               => meta.arguments.items = DeclaredItems(i) /\ warnings = 1
          /\ (a = None /\ i = None)
               => meta.arguments.items = <<>> /\ warnings = 0
          /\ Mounted => field.args = meta.arguments

C7_Witness ==
    /\ Mounted
    /\ opts.arguments = None
    /\ getattr(cls, "Arguments") = None
    /\ getattr(cls, "Input") # None
    /\ Len(field.args.items) = MaxArgs
    /\ warnings = 1

\* positions of the listed interfaces that are not interface types
Offending ==
    {i \in 1..Len(opts.interfaces) : "Interface" \notin opts.interfaces[i].bases}

C9_MutateRequiredAndWrapped ==
    (pc # "declared" /\ opts.resolver = None)
    => /\ getattr(cls, "mutate") = None
            => /\ pc = "failed"
               /\ error.type = "AssertionError"
               /\ Offending = {} => error = AssertionError("mutate", "")
               /\ meta = opts.meta
               /\ field = None
       /\ (getattr(cls, "mutate") # None /\ Constructed)
            => /\ meta.resolver.kind = "closure"
               /\ meta.resolver.mutate = getattr(cls, "mutate")
               /\ meta.resolver.arguments = meta.arguments

C9_Witness ==
    /\ pc = "failed"
    /\ opts.resolver = None
    /\ getattr(cls, "mutate") = None
    /\ Offending = {}
    /\ getattr(cls, "Arguments") # None

\* C10: an explicit resolver is mounted unwrapped: construction succeeds
\* without mutate, and invoking the field runs no validator and no mutate.
C10_ExplicitResolverUnwrapped ==
    (pc # "declared" /\ opts.resolver # None)
    => /\ Offending = {} => Constructed
       /\ Constructed => meta.resolver = opts.resolver
       /\ Mounted => field.resolver = opts.resolver
       /\ pc = "resolved"
            => /\ calls = <<>>
               /\ rerror = NoError
               /\ result = Return(opts.resolver, Positional, kwargs)

C10_Witness ==
    /\ pc = "resolved"
    /\ opts.resolver # None
    /\ getattr(cls, "mutate") = None
    /\ \E i \in DictArgs :
         \E j \in 1..Len(kwargs[field.args.items[i][1]].items) :
           ValidatorName(kwargs[field.args.items[i][1]].items[j][1])
             \in DOMAIN field.args.items[i][2].attrs
    /\ calls = <<>>

====
